---- MODULE Spec2Model ----
(***************************************************************************)
(* A model of the @wordpress/data store registry (createRegistry): the     *)
(* listener bus (subscribe / unsubscribe / globalListener), the store map  *)
(* with parent delegation (registerGenericStore, registerStore, select,    *)
(* dispatch) and the promise-returning selectors of                        *)
(* __experimentalResolveSelect; with it the theme template                 *)
(* synchronization on a version change and isEmpty of the Navigation       *)
(* component.                                                              *)
(*                                                                         *)
(* JavaScript runs to completion: an operation called from the outside     *)
(* starts only when no notification pass is running (stack = << >>); what  *)
(* a listener does while it is invoked happens inside the step that        *)
(* invokes it.                                                             *)
(***************************************************************************)
EXTENDS Integers, Sequences, FiniteSets, TLC

(* ------------------------------ bounds -------------------------------- *)
MaxSubs == 2
MaxPasses == 3
MaxDepth == 2
MaxRegs == 2
MaxAdapters == 2
MaxPromises == 2
MaxChanges == 2
MaxRegistrations == 2
MaxUses == 3
MaxIncrements == 2
MaxResolveSelects == 3
MaxVersion == 1
MaxEntries == 3

\* A cache that kept two entries.
MaxSizeOfTwo == 1 + 1

\* memize( ..., { maxSize: 1 } )
MaxSize == 1

VARIABLES
    created,      \* the registries createRegistry has returned
    parent,       \* parent[r]: the parent registry of r, 0 for null
    stores,       \* stores[r][key]: own properties of r's `stores` object
    storeSubs,    \* storeSubs[a]: the registries whose globalListener adapter a holds
    atomResolver, \* atomResolver[r]: r's __unstableAtomResolver, 0 for undefined
    nextAdapter,  \* the next fresh adapter object
    listeners,    \* listeners[r]: r's `listeners` array
    stack,        \* the running globalListener calls, innermost last
    handles,      \* the unsubscribe functions subscribe has returned
    called,       \* ids of the unsubscribe functions already called once
    unsubscribed, \* the registrations removed while a running pass had still to reach them
    nextId,       \* the next registration id
    passCount,    \* passCount[r]: the globalListener calls of r so far
    subAt,        \* subAt[id]: passCount of the registry when id was subscribed
    subDuring,    \* registrations made while a pass was running
    firstIn,      \* firstIn[id]: the pass that invoked id first, 0 for none
    status,       \* status[t]: resolution status of argument tuple t in store x
    value,        \* value[t]: what the selector of store x returns for t
    promises,     \* promises[p]: the promise of the p-th resolveSelect call
    resolverRuns, \* resolverRuns[t]: how often the resolver of tuple t was started
    failed,       \* failed[t]: the resolver of tuple t has thrown or rejected
    registry,     \* the object the `registry` variable of createRegistry names
    useRet,       \* the object the most recent use call returned
    added,        \* the attributes the plugins of the use calls returned so far
    uses,         \* the use calls so far
    counterState, \* the state of the counter store
    incCalls,     \* the calls of dispatch( 'counter' ).increment() so far
    cache,        \* cache[r]: the entries of r's memoized getResolveSelectors
    built,        \* the promise-selector bundles built so far
    resolveRet,   \* resolveRet[r]: the most recent resolveSelect call on r
    resolveCalls, \* the resolveSelect calls so far
    theme,        \* the stylesheet of the current theme
    themeVersion, \* themeVersion[s]: the version of the installed theme s
    lastAutoDraftsVersions, \* the option gutenberg_last_template_auto_drafts_theme_versions
    autoDrafts,   \* the stylesheets templates were synchronized under
    navigationTree, \* what useCreateNavigationTree() returned: menus, parentMenuToMenu
    menuToCheck,  \* the argument of the running isEmpty call
    count,        \* `count` of the running isEmpty call
    visited,      \* `visited` of the running isEmpty call
    queue,        \* `queue` of the running isEmpty call
    queueIsTreeArray, \* `queue` still names the array findByParentMenu returned first
    treeAtCall,   \* the navigation tree as the most recent isEmpty call found it
    last          \* what the most recent operation did and returned

vars == <<created, parent, stores, storeSubs, atomResolver, nextAdapter,
          listeners, stack, handles, called, unsubscribed, nextId, passCount,
          subAt, subDuring, firstIn, status, value, promises, resolverRuns, failed,
          registry, useRet, added, uses, counterState, incCalls, cache,
          built, resolveRet, resolveCalls, theme, themeVersion,
          lastAutoDraftsVersions, autoDrafts, navigationTree, menuToCheck,
          count, visited, queue, queueIsTreeArray, treeAtCall, last>>

regVars == <<created, parent, stores, storeSubs, atomResolver, nextAdapter>>
resolveVars == <<status, value, promises, resolverRuns, failed>>

(* The state of use, of the counter store, of the resolve-selector cache, of  *)
(* the theme template synchronization and of the Navigation component.       *)
useVars == <<registry, useRet, added, uses>>
counterVars == <<counterState, incCalls>>
memoVars == <<cache, built, resolveRet, resolveCalls>>
themeVars == <<theme, themeVersion, lastAutoDraftsVersions, autoDrafts>>
navVars == <<navigationTree, menuToCheck, count, visited, queue,
             queueIsTreeArray, treeAtCall>>
extVars == <<useVars, counterVars, memoVars, themeVars, navVars>>
\* What use, the counter store, resolveSelect( key ), the theme
\* synchronization and isEmpty each leave alone.
exceptUse == <<counterVars, memoVars, themeVars, navVars>>
exceptCounter == <<useVars, memoVars, themeVars, navVars>>
exceptMemo == <<useVars, counterVars, themeVars, navVars>>
exceptTheme == <<useVars, counterVars, memoVars, navVars>>
exceptNav == <<useVars, counterVars, memoVars, themeVars>>

\* The installed themes: a child theme and its parent.
Stylesheets == {"child", "parent"}
None == "none"
\* $theme->parent() of the theme with stylesheet s.
ParentOf(s) == IF s = "child" THEN "parent" ELSE None
\* Theme versions, major.minor.
Versions == (0..MaxVersion) \X (0..MaxVersion)
\* A stylesheet the option has no entry for.
NotSet == << >>

\* The attributes of the object literal of createRegistry and the two
\* assigned after it.
OriginalAttributes ==
    {"getAtomRegistry", "registerGenericStore", "stores", "namespaces",
     "subscribe", "select", "__experimentalResolveSelect", "dispatch", "use",
     "getStoreAtom", "__unstableGetAtomResolver", "__unstableSetAtomResolver",
     "registerStore", "registerAtomicStore"}
\* The attributes plugins add.
NewAttributes == {"persist", "controls"}
Attributes == OriginalAttributes \cup NewAttributes

Absent == [t |-> "absent", n |-> 0]
Original == [t |-> "original", n |-> 0]
\* What the plugin of the n-th use call put in the object it returned.
FromPlugin(n) == [t |-> "plugin", n |-> n]

\* `registry` as createRegistry leaves it.
OriginalRegistry ==
    [k \in Attributes |-> IF k \in OriginalAttributes THEN Original ELSE Absent]

Regs == 1..MaxRegs
Ids == 1..MaxSubs
Root == 1

(* --------------------------- listener bus ----------------------------- *)

\* The callbacks user code passes to subscribe.
Callbacks == {[kind |-> "cb", n |-> 1], [kind |-> "cb", n |-> 2]}
\* The closure resolveSelect subscribes for promise p.
WaitListener(p) == [kind |-> "wait", n |-> p]
\* The globalListener of registry r, as subscribed to its parent or a store.
GlobalListenerOf(r) == [kind |-> "global", n |-> r]

\* One element of a `listeners` array: the callback reference, and the
\* subscribe call that pushed it (id, which the code does not keep).
Entry(c, id) == [cb |-> c, id |-> id]

CbsOf(s) == [i \in DOMAIN s |-> s[i].cb]
IdsOf(s) == {s[i].id : i \in DOMAIN s}
Count(s, x) == Cardinality({i \in DOMAIN s : s[i] = x})

\* lodash without(array, value): a new array without every element equal
\* to value.
Without(arr, c) == SelectSeq(arr, LAMBDA e : e.cb # c)

\* listeners.push( listener ): the array object is changed in place, so a
\* running forEach over the same object sees it grow.
PushInto(st, r, e) ==
    [i \in DOMAIN st |->
        IF st[i].reg = r /\ st[i].same
        THEN [st[i] EXCEPT !.arr = Append(@, e)]
        ELSE st[i]]

\* listeners = without( ... ): the variable now names another array object;
\* a running forEach keeps the one it started on.
Detach(st, r) ==
    [i \in DOMAIN st |->
        IF st[i].reg = r THEN [st[i] EXCEPT !.same = FALSE] ELSE st[i]]

\* listeners.forEach( ... ) begins: the length is read once.
NewFrame(r) ==
    [reg |-> r, arr |-> listeners[r], same |-> TRUE,
     len |-> Len(listeners[r]), k |-> 1, calls |-> << >>,
     no |-> passCount[r] + 1]

PassRecord(f, threw) ==
    [op |-> "pass", reg |-> f.reg, range |-> SubSeq(f.arr, 1, f.len),
     calls |-> f.calls, threw |-> threw]

\* The function a subscribe call returns, kept by the caller: it closes over
\* the registry's `listeners` variable and the callback, nothing else.
Handle(r, c, id) == [reg |-> r, cb |-> c, id |-> id]

\* registry.subscribe( c ) on r, called with st as the running passes.
DoSubscribe(st, r, c) ==
    /\ nextId <= MaxSubs
    /\ listeners' = [listeners EXCEPT ![r] = Append(@, Entry(c, nextId))]
    /\ stack' = PushInto(st, r, Entry(c, nextId))
    /\ nextId' = nextId + 1
    /\ subAt' = [subAt EXCEPT ![nextId] = passCount[r]]
    /\ subDuring' = IF stack # << >> THEN subDuring \cup {nextId} ELSE subDuring

\* The pass of r whose listener is running in st, when element e is at an
\* index of its forEach that is still to come; 0 when there is none.
PendingIn(st, r, e) ==
    IF /\ st # << >>
       /\ st[Len(st)].reg = r
       /\ \E j \in st[Len(st)].k..st[Len(st)].len : st[Len(st)].arr[j] = e
    THEN st[Len(st)].no
    ELSE 0

\* What one unsubscribe call on r takes out of arr ahead of the running pass:
\* each element removed that the pass has still to reach, the passes of r
\* begun so far (at), and that pass (pending).
RemovedBy(st, r, arr, c) ==
    {[id |-> arr[i].id, reg |-> r, at |-> passCount[r],
      pending |-> PendingIn(st, r, arr[i])] :
        i \in {j \in DOMAIN arr : arr[j].cb = c /\ PendingIn(st, r, arr[j]) # 0}}

\* The function subscribe returned, called: h.cb is the `listener` it closes over.
DoUnsubscribe(st, h) ==
    /\ listeners' = [listeners EXCEPT ![h.reg] = Without(@, h.cb)]
    /\ stack' = Detach(st, h.reg)
    /\ called' = called \cup {h.id}
    /\ unsubscribed' = unsubscribed \cup RemovedBy(st, h.reg, listeners[h.reg], h.cb)
    /\ last' = [op |-> "unsubscribe", reg |-> h.reg, id |-> h.id,
                again |-> h.id \in called,
                before |-> listeners[h.reg],
                after |-> Without(listeners[h.reg], h.cb)]

\* globalListener() of r begins.
DoNotify(st, r) ==
    /\ Len(st) < MaxDepth
    /\ passCount[r] < MaxPasses
    /\ stack' = Append(st, NewFrame(r))
    /\ passCount' = [passCount EXCEPT ![r] = @ + 1]

Top == stack[Len(stack)]

\* The callback of the forEach body returns: the pass moves to the next index.
Advanced ==
    [stack EXCEPT ![Len(stack)] =
        [@ EXCEPT !.k = @ + 1, !.calls = Append(@, Top.arr[Top.k])]]

\* forEach calls the element at index k, for k below the length read at the
\* start of the pass.
Cur == Top.arr[Top.k]

\* A forEach that read the length of the array again at every index.
InRangeLive(f) == f.k <= Len(f.arr)

\* forEach visits the indices below the length it read when it began.
InRange(f) == f.k <= f.len

Invoking(kind) ==
    /\ stack # << >>
    /\ InRange(Top)
    /\ Cur.cb.kind = kind
    /\ firstIn' = IF firstIn[Cur.id] = 0
                  THEN [firstIn EXCEPT ![Cur.id] = Top.no]
                  ELSE firstIn

(* Operations called from outside any pass. *)

Subscribe(r, c) ==
    /\ stack = << >>
    /\ r \in created
    /\ DoSubscribe(stack, r, c)
    /\ handles' = handles \cup {Handle(r, c, nextId)}
    /\ UNCHANGED <<extVars, called, unsubscribed, passCount, firstIn, last, regVars, resolveVars>>

Unsubscribe(h) ==
    /\ stack = << >>
    /\ DoUnsubscribe(stack, h)
    /\ UNCHANGED <<extVars, handles, nextId, passCount, subAt, subDuring, firstIn,
                   regVars, resolveVars>>

\* A store of r reports a change: the globalListener it holds is called.
Notify(r) ==
    /\ stack = << >>
    /\ r \in created
    /\ DoNotify(stack, r)
    /\ UNCHANGED <<extVars, listeners, handles, called, unsubscribed, nextId, subAt, subDuring,
                   firstIn, last, regVars, resolveVars>>

(* What a callback of user code may do while it is invoked. *)

ListenerReturns ==
    /\ Invoking("cb")
    /\ stack' = Advanced
    /\ UNCHANGED <<extVars, listeners, handles, called, unsubscribed, nextId, passCount, subAt,
                   subDuring, last, regVars, resolveVars>>

\* The exception leaves forEach and every caller above it: nothing catches it.
ListenerThrows ==
    /\ Invoking("cb")
    /\ stack' = << >>
    /\ last' = PassRecord(Advanced[Len(stack)], TRUE)
    /\ UNCHANGED <<extVars, listeners, handles, called, unsubscribed, nextId, passCount, subAt,
                   subDuring, regVars, resolveVars>>

ListenerSubscribes(c) ==
    /\ Invoking("cb")
    /\ DoSubscribe(Advanced, Top.reg, c)
    /\ handles' = handles \cup {Handle(Top.reg, c, nextId)}
    /\ UNCHANGED <<extVars, called, unsubscribed, passCount, last, regVars, resolveVars>>

ListenerUnsubscribes(h) ==
    /\ Invoking("cb")
    /\ DoUnsubscribe(Advanced, h)
    /\ UNCHANGED <<extVars, handles, nextId, passCount, subAt, subDuring,
                   regVars, resolveVars>>

\* The callback changes a store of the registry, whose globalListener runs
\* inside the call.
ListenerNotifies ==
    /\ Invoking("cb")
    /\ DoNotify(Advanced, Top.reg)
    /\ UNCHANGED <<extVars, listeners, handles, called, unsubscribed, nextId, subAt, subDuring,
                   last, regVars, resolveVars>>

\* forEach has passed the length it read: globalListener returns.
PassEnd ==
    /\ stack # << >>
    /\ ~InRange(Top)
    /\ stack' = SubSeq(stack, 1, Len(stack) - 1)
    /\ last' = PassRecord(Top, FALSE)
    /\ UNCHANGED <<extVars, listeners, handles, called, unsubscribed, nextId, passCount, subAt,
                   subDuring, firstIn, regVars, resolveVars>>

(* ------------------------------ state --------------------------------- *)

Keys == {"core/data", "x", "constructor", "counter"}
Adapters == 1..(MaxAdapters + MaxRegs)
\* The adapter createCoreDataStore( registry ) builds for registry r.
CoreStore(r) == MaxAdapters + r

\* The argument tuples callers pass to the selector.
ArgTuples == {1, 2}

Undefined == [t |-> "undefined", a |-> 0]
Adapter(a) == [t |-> "adapter", a |-> a]

\* The menu props of the Navigation's menus.
MenuNames == {"root", "a", "b"}
\* No isEmpty call is running.
NoMenu == "none"
\* The navigation tree before a menu has registered itself.
EmptyTree == [menus |-> [n \in MenuNames |-> Undefined],
              parentMenuToMenu |-> [n \in MenuNames |-> << >>]]

\* No resolveSelect call has been made.
NoCall == [called |-> FALSE, arg |-> [t |-> "none", a |-> 0], val |-> [n |-> 0]]

InitExt ==
    /\ registry = OriginalRegistry
    /\ useRet = OriginalRegistry
    /\ added = {}
    /\ uses = 0
    /\ counterState = 0
    /\ incCalls = 0
    /\ cache = [r \in Regs |-> << >>]
    /\ built = 0
    /\ resolveRet = [r \in Regs |-> NoCall]
    /\ resolveCalls = 0
    /\ theme = "parent"
    /\ themeVersion = [s \in Stylesheets |-> <<0, 0>>]
    /\ lastAutoDraftsVersions = [s \in Stylesheets |-> NotSet]
    /\ autoDrafts = {}
    /\ navigationTree = EmptyTree
    /\ menuToCheck = NoMenu
    /\ count = 0
    /\ visited = << >>
    /\ queue = << >>
    /\ queueIsTreeArray = FALSE
    /\ treeAtCall = EmptyTree

\* createRegistry() with no parent, as it returns.
InitRoot ==
    /\ created = {Root}
    /\ parent = [r \in Regs |-> 0]
    /\ stores = [r \in Regs |->
                    [k \in Keys |-> IF r = Root /\ k = "core/data"
                                    THEN Adapter(CoreStore(r)) ELSE Undefined]]
    /\ storeSubs = [a \in Adapters |->
                       IF a = CoreStore(Root) THEN <<Root>> ELSE << >>]
    /\ atomResolver = [r \in Regs |-> 0]
    /\ nextAdapter = 1
    /\ listeners = [r \in Regs |-> << >>]
    /\ stack = << >>
    /\ handles = {}
    /\ called = {}
    /\ unsubscribed = {}
    /\ nextId = 1
    /\ passCount = [r \in Regs |-> 0]
    /\ subAt = [i \in Ids |-> 0]
    /\ subDuring = {}
    /\ firstIn = [i \in Ids |-> 0]
    /\ status = [t \in ArgTuples |-> "NOT_STARTED"]
    /\ value = [t \in ArgTuples |-> 0]
    /\ promises = << >>
    /\ resolverRuns = [t \in ArgTuples |-> 0]
    /\ failed = [t \in ArgTuples |-> FALSE]
    /\ last = [op |-> "none"]
    /\ InitExt

(* The listener bus of one registry, driven by arbitrary callers. *)
NextBus ==
    \/ \E c \in Callbacks : Subscribe(Root, c)
    \/ \E h \in handles : Unsubscribe(h)
    \/ Notify(Root)
    \/ ListenerReturns
    \/ ListenerThrows
    \/ \E c \in Callbacks : ListenerSubscribes(c)
    \/ \E h \in handles : ListenerUnsubscribes(h)
    \/ ListenerNotifies
    \/ PassEnd

SpecBus == InitRoot /\ [][NextBus]_vars

(* ----------------------- claims: listener bus ------------------------- *)

\* The index at which callback c first occurs in s.
FirstIndex(s, c) == CHOOSE i \in DOMAIN s : s[i] = c /\ \A j \in 1..(i - 1) : s[j] # c

\* C1: every pass invokes each listener subscribed (and not unsubscribed) at
\* its start exactly once, in the order in which they were subscribed.
C1_EachLiveListenerOnceInOrder ==
    last.op = "pass" =>
        LET range == CbsOf(last.range)
            calls == CbsOf(last.calls)
        IN  /\ \A i \in DOMAIN range : Count(calls, range[i]) = 1
            /\ \A i \in DOMAIN calls : \E j \in DOMAIN range : range[j] = calls[i]
            /\ \A i, j \in DOMAIN calls :
                   i < j => FirstIndex(range, calls[i]) <= FirstIndex(range, calls[j])

\* C2: no pass invokes the same callback more than once.
C2_NoCallbackTwiceInAPass ==
    \A f \in DOMAIN stack :
        \A i, j \in DOMAIN stack[f].calls :
            stack[f].calls[i].cb = stack[f].calls[j].cb => i = j

\* C3: the first call of an unsubscribe function removes the registration it
\* was returned for and nothing else; every later call changes nothing.
C3_UnsubscribeRemovesExactlyItsRegistration ==
    last.op = "unsubscribe" =>
        IF last.again
        THEN last.after = last.before
        ELSE last.after = SelectSeq(last.before, LAMBDA e : e.id # last.id)

\* C4 as claimed: a listener subscribed while a pass is running is not
\* invoked in that pass; its first invocation is in the next pass of the
\* registry.
C4_SubscribedDuringPassFirstInvokedInNext ==
    \A id \in subDuring : firstIn[id] # 0 => firstIn[id] = subAt[id] + 1

\* C4 as amended: a listener subscribed while a pass is running is invoked by
\* no pass that had begun when it was subscribed, only by passes that begin
\* later.
C4_SubscribedDuringPassOnlyInLaterPasses ==
    \A f \in DOMAIN stack :
        \A i \in DOMAIN stack[f].calls :
            stack[f].calls[i].id \in subDuring =>
                subAt[stack[f].calls[i].id] < stack[f].no

\* A listener subscribed during a pass is being invoked by a later pass.
C4_Witness ==
    \E f \in DOMAIN stack :
        \E i \in DOMAIN stack[f].calls : stack[f].calls[i].id \in subDuring

\* C5: when a listener throws, the listeners after it in the pass are still
\* invoked in that pass.
C5_ThrowDoesNotStopThePass ==
    (last.op = "pass" /\ last.threw) => Len(last.calls) = Len(last.range)

(* The bus with callbacks that never throw, and with callbacks that never *)
(* throw and are never subscribed while subscribed: C4 and C1 fail for no *)
(* other reason.                                                          *)
NextBusNoThrow == NextBus /\ ~ListenerThrows
SpecBusNoThrow == InitRoot /\ [][NextBusNoThrow]_vars

NoDuplicateSubscribe == \A i, j \in DOMAIN listeners'[Root] :
                            listeners'[Root][i].cb = listeners'[Root][j].cb => i = j
SpecBusNoThrowNoDup == InitRoot /\ [][NextBusNoThrow /\ NoDuplicateSubscribe]_vars

(* ------------------------ registry: store map ------------------------- *)

Null == [t |-> "null", a |-> 0]
TypeError == [t |-> "TypeError", a |-> 0]
\* What a member inherited from Object.prototype reads as: a value that is
\* truthy and has no getSelectors / getActions.
Inherited == [t |-> "inherited", a |-> 0]
\* The objects adapter a returns from getSelectors() and getActions().
SelectorsOf(a) == [t |-> "selectors", a |-> a]
ActionsOf(a) == [t |-> "actions", a |-> a]

\* The keys every object literal inherits from Object.prototype.
ObjectPrototypeKeys == {"constructor"}

\* stores[ reducerKey ] on `const stores = {}`: an own property, else a
\* member of Object.prototype, else undefined.
Lookup(obj, key) ==
    IF obj[key] # Undefined THEN obj[key]
    ELSE IF key \in ObjectPrototypeKeys THEN Inherited
    ELSE Undefined

Truthy(v) == v # Undefined /\ v # Null

\* select( reducerKey ) on registry r with ar as the atom resolvers: what it
\* returns, the atom resolvers it leaves, and the registry whose store atom
\* it handed to the atom resolver (0 for none).
RECURSIVE Select(_, _, _)
Select(ar, r, key) ==
    LET store == Lookup(stores[r], key) IN
    IF Truthy(store)
    THEN [ret |-> IF store.t = "adapter" THEN SelectorsOf(store.a) ELSE TypeError,
          ar |-> ar,
          atom |-> IF ar[r] # 0 THEN r ELSE 0]
    ELSE IF parent[r] # 0
         THEN Select([ar EXCEPT ![parent[r]] = ar[r]], parent[r], key)
         ELSE [ret |-> Undefined, ar |-> ar, atom |-> 0]

\* A dispatch that looked in the registry's own stores only.
DispatchLocalOnly(r, key) ==
    LET store == Lookup(stores[r], key) IN
    IF Truthy(store)
    THEN IF store.t = "adapter" THEN ActionsOf(store.a) ELSE TypeError
    ELSE Null

\* dispatch( reducerKey ) on registry r.
RECURSIVE Dispatch(_, _)
Dispatch(r, key) ==
    LET store == Lookup(stores[r], key) IN
    IF Truthy(store)
    THEN IF store.t = "adapter" THEN ActionsOf(store.a) ELSE TypeError
    ELSE IF parent[r] = 0 THEN Null ELSE Dispatch(parent[r], key)

\* The configs callers pass to registerGenericStore: object a, and whether
\* each of its three members is a function. An object already registered
\* has all three.
Configs ==
    {c \in [a : 1..MaxAdapters, getSelectors : BOOLEAN, getActions : BOOLEAN,
            subscribe : BOOLEAN] :
        /\ c.a <= nextAdapter
        /\ c.a < nextAdapter => (c.getSelectors /\ c.getActions /\ c.subscribe)}

\* The three typeof checks of registerGenericStore, in order.
ConfigError(config) ==
    IF ~config.getSelectors THEN "config.getSelectors must be a function"
    ELSE IF ~config.getActions THEN "config.getActions must be a function"
    ELSE IF ~config.subscribe THEN "config.subscribe must be a function"
    ELSE "none"

\* A registerGenericStore that stored the config before it checked it.
GenericStoreLateCheck(r, key, config, op) ==
    /\ stores' = [stores EXCEPT ![r][key] = Adapter(config.a)]
    /\ IF ConfigError(config) # "none"
       THEN /\ last' = [op |-> op, ret |-> TypeError,
                        message |-> ConfigError(config)]
            /\ UNCHANGED storeSubs
       ELSE /\ storeSubs' = [storeSubs EXCEPT ![config.a] = Append(@, r)]
            /\ last' = [op |-> op, ret |-> Undefined,
                        message |-> "none"]

\* A registerGenericStore that kept the store a key already had.
GenericStoreFirstWins(r, key, config, op) ==
    IF ConfigError(config) # "none"
    THEN /\ last' = [op |-> op, ret |-> TypeError,
                     message |-> ConfigError(config)]
         /\ UNCHANGED <<stores, storeSubs>>
    ELSE /\ stores' = IF stores[r][key] # Undefined THEN stores
                      ELSE [stores EXCEPT ![r][key] = Adapter(config.a)]
         /\ storeSubs' = [storeSubs EXCEPT ![config.a] = Append(@, r)]
         /\ last' = [op |-> op, ret |-> Undefined,
                     message |-> "none"]

\* A registerGenericStore that took its globalListener from the store the
\* key had.
GenericStoreUnsubscribesReplaced(r, key, config, op) ==
    IF ConfigError(config) # "none"
    THEN /\ last' = [op |-> op, ret |-> TypeError,
                     message |-> ConfigError(config)]
         /\ UNCHANGED <<stores, storeSubs>>
    ELSE /\ stores' = [stores EXCEPT ![r][key] = Adapter(config.a)]
         /\ storeSubs' =
                [a \in Adapters |->
                    LET kept == IF stores[r][key] = Adapter(a)
                                THEN SelectSeq(storeSubs[a], LAMBDA x : x # r)
                                ELSE storeSubs[a]
                    IN  IF a = config.a THEN Append(kept, r) ELSE kept]
         /\ last' = [op |-> op, ret |-> Undefined,
                     message |-> "none"]

\* registerGenericStore( key, config ) on registry r, called as op. The
\* store atom of the key (storesAtoms) is set exactly when stores is.
GenericStore(r, key, config, op) ==
    IF ConfigError(config) # "none"
    THEN /\ last' = [op |-> op, ret |-> TypeError,
                     message |-> ConfigError(config)]
         /\ UNCHANGED <<stores, storeSubs>>
    ELSE /\ stores' = [stores EXCEPT ![r][key] = Adapter(config.a)]
         /\ storeSubs' = [storeSubs EXCEPT ![config.a] = Append(@, r)]
         /\ last' = [op |-> op, ret |-> Undefined,
                     message |-> "none"]

RECURSIVE SumLen(_, _)
SumLen(f, S) ==
    IF S = {} THEN 0
    ELSE LET x == CHOOSE y \in S : TRUE IN Len(f[x]) + SumLen(f, S \ {x})

\* The registrations callers have made so far.
Registrations == SumLen(storeSubs, 1..MaxAdapters)

busVars == <<listeners, stack, handles, called, unsubscribed, nextId, passCount, subAt,
             subDuring, firstIn>>

RegisterGenericStore(r, key, config) ==
    /\ stack = << >>
    /\ r \in created
    /\ Registrations < MaxRegistrations
    /\ GenericStore(r, key, config, "registerGenericStore")
    /\ nextAdapter' = IF config.a = nextAdapter /\ ConfigError(config) = "none"
                      THEN nextAdapter + 1 ELSE nextAdapter
    /\ UNCHANGED <<extVars, created, parent, atomResolver, busVars, resolveVars>>

\* The adapter createNamespace builds: a new object with getSelectors,
\* getActions and subscribe.
Namespace == [a |-> nextAdapter, getSelectors |-> TRUE, getActions |-> TRUE,
              subscribe |-> TRUE]

\* registry.registerStore( reducerKey, options ), options.reducer given or not.
RegisterStore(r, key, reducer) ==
    /\ stack = << >>
    /\ r \in created
    /\ IF ~reducer
       THEN /\ last' = [op |-> "registerStore",
                        ret |-> TypeError, message |-> "Must specify store reducer"]
            /\ UNCHANGED <<stores, storeSubs, nextAdapter>>
       ELSE /\ nextAdapter <= MaxAdapters
            /\ Registrations < MaxRegistrations
            /\ GenericStore(r, key, Namespace, "registerStore")
            /\ nextAdapter' = nextAdapter + 1
    /\ UNCHANGED <<extVars, created, parent, atomResolver, busVars, resolveVars>>

\* select( reducerKey ) called on r: what it returns is Select(...).ret; on the
\* way up it leaves its atom resolver in every registry it delegates to.
SelectCall(r, key) ==
    /\ stack = << >>
    /\ r \in created
    /\ atomResolver' = Select(atomResolver, r, key).ar
    /\ UNCHANGED <<extVars, created, parent, stores, storeSubs, nextAdapter, busVars,
                   resolveVars, last>>

\* registry.__unstableSetAtomResolver( value ): 0 is undefined, 1 a function.
SetAtomResolver(r, v) ==
    /\ stack = << >>
    /\ r \in created
    /\ atomResolver' = [atomResolver EXCEPT ![r] = v]
    /\ UNCHANGED <<extVars, created, parent, stores, storeSubs, nextAdapter, busVars,
                   resolveVars, last>>

\* createRegistry( {}, p ): registers the core/data store, then subscribes
\* its globalListener to the parent and drops the unsubscribe function.
CreateRegistry(p) ==
    LET r == Cardinality(created) + 1 IN
    /\ stack = << >>
    /\ r \in Regs
    /\ created' = created \cup {r}
    /\ parent' = [parent EXCEPT ![r] = p]
    /\ stores' = [stores EXCEPT ![r]["core/data"] = Adapter(CoreStore(r))]
    /\ storeSubs' = [storeSubs EXCEPT ![CoreStore(r)] = Append(@, r)]
    /\ IF p # 0
       THEN DoSubscribe(stack, p, GlobalListenerOf(r))
       ELSE UNCHANGED <<listeners, stack, nextId, subAt, subDuring>>
    /\ UNCHANGED <<extVars, atomResolver, nextAdapter, handles, called, unsubscribed, passCount,
                   firstIn, resolveVars, last>>

\* The keys callers use: one never inherited, one that Object.prototype has.
CallKeys == {"x", "constructor"}

(* The store map of a chain of registries, driven by arbitrary callers. *)
NextReg ==
    \/ \E p \in created \cup {0} : CreateRegistry(p)
    \/ \E r \in Regs, k \in CallKeys : \E c \in Configs : RegisterGenericStore(r, k, c)
    \/ \E r \in Regs, k \in CallKeys, reducer \in BOOLEAN : RegisterStore(r, k, reducer)
    \/ \E r \in Regs, k \in CallKeys : SelectCall(r, k)
    \/ \E r \in Regs, v \in {0, 1} : SetAtomResolver(r, v)

SpecReg == InitRoot /\ [][NextReg]_vars

(* ------------------------- claims: store map -------------------------- *)

RegisterOps == {"registerGenericStore", "registerStore"}

\* C6: a registration call that fails (a config whose getSelectors,
\* getActions or subscribe is no function, or options without a reducer)
\* leaves the store maps, the adapters' subscribers and the listeners as they
\* were, and select and dispatch return for every key what they returned.
C6_FailedRegistrationChangesNothing ==
    [][(last' # last /\ last'.op \in RegisterOps /\ last'.ret = TypeError) =>
          /\ UNCHANGED <<created, parent, stores, storeSubs, listeners>>
          /\ \A r \in created, k \in Keys :
                /\ Select(atomResolver, r, k).ret' = Select(atomResolver, r, k).ret
                /\ Dispatch(r, k)' = Dispatch(r, k)]_vars

\* A registration has just failed in a registry that holds a store
\* registered by an earlier call.
C6_Witness ==
    /\ last.op \in RegisterOps
    /\ last.ret = TypeError
    /\ \E r \in created, k \in CallKeys : stores[r][k] # Undefined

\* The nearest registry from r up the parent chain with key registered, 0
\* when there is none.
RECURSIVE NearestWith(_, _)
NearestWith(r, key) ==
    IF stores[r][key] # Undefined THEN r
    ELSE IF parent[r] # 0 THEN NearestWith(parent[r], key)
    ELSE 0

\* C7: select(key) returns the selectors of the nearest registry of the chain
\* that has key registered, and undefined, throwing nothing, when none has.
C7_SelectReturnsNearestOrUndefined ==
    \A r \in created, k \in Keys :
        Select(atomResolver, r, k).ret =
            IF NearestWith(r, k) # 0
            THEN SelectorsOf(stores[NearestWith(r, k)][k].a)
            ELSE Undefined

\* C8: dispatch(key) returns the actions of the nearest registry of the chain
\* that has key registered, and undefined when none has.
C8_DispatchReturnsNearestOrUndefined ==
    \A r \in created, k \in Keys :
        Dispatch(r, k) =
            IF NearestWith(r, k) # 0
            THEN ActionsOf(stores[NearestWith(r, k)][k].a)
            ELSE Undefined

\* C7 and C8 for the keys Object.prototype does not have, and with null read
\* as undefined: both hold, so they fail for no other reason.
C7_ForKeysNotInherited ==
    \A r \in created, k \in Keys \ ObjectPrototypeKeys :
        Select(atomResolver, r, k).ret =
            IF NearestWith(r, k) # 0
            THEN SelectorsOf(stores[NearestWith(r, k)][k].a)
            ELSE Undefined

C8_ForKeysNotInheritedUpToNull ==
    \A r \in created, k \in Keys \ ObjectPrototypeKeys :
        Dispatch(r, k) =
            IF NearestWith(r, k) # 0
            THEN ActionsOf(stores[NearestWith(r, k)][k].a)
            ELSE Null

(* --------------------------- resolveSelect ---------------------------- *)

\* The registry holds one store made by registerStore under key x, with a
\* selector that has a resolver.
XStore == 1

InitResolve ==
    /\ created = {Root}
    /\ parent = [r \in Regs |-> 0]
    /\ stores = [r \in Regs |->
                    [k \in Keys |->
                        IF r = Root /\ k = "core/data" THEN Adapter(CoreStore(r))
                        ELSE IF r = Root /\ k = "x" THEN Adapter(XStore)
                        ELSE Undefined]]
    /\ storeSubs = [a \in Adapters |->
                       IF a \in {CoreStore(Root), XStore} THEN <<Root>> ELSE << >>]
    /\ atomResolver = [r \in Regs |-> 0]
    /\ nextAdapter = XStore + 1
    /\ listeners = [r \in Regs |-> << >>]
    /\ stack = << >>
    /\ handles = {}
    /\ called = {}
    /\ unsubscribed = {}
    /\ nextId = 1
    /\ passCount = [r \in Regs |-> 0]
    /\ subAt = [i \in Ids |-> 0]
    /\ subDuring = {}
    /\ firstIn = [i \in Ids |-> 0]
    /\ status = [t \in ArgTuples |-> "NOT_STARTED"]
    /\ value = [t \in ArgTuples |-> 0]
    /\ promises = << >>
    /\ resolverRuns = [t \in ArgTuples |-> 0]
    /\ failed = [t \in ArgTuples |-> FALSE]
    /\ last = [op |-> "none"]
    /\ InitExt

\* selectors.hasFinishedResolution( selectorName, args ) of the store.
HasFinishedResolution(t) == status[t] = "FINISHED"

\* A store that started the resolver at every call made before completion.
StartsResolverUnlessFinished(t) == status[t] # "FINISHED"

\* The selector of the store starts the resolver of a tuple at the first call
\* with it only.
StartsResolver(t) == status[t] = "NOT_STARTED"

\* The selector of the store, called with args: it starts the resolver of a
\* tuple not started yet, and returns the value in the state.
SelectorStatus(t) ==
    IF StartsResolver(t) THEN [status EXCEPT ![t] = "IN_PROGRESS"] ELSE status
SelectorRuns(t) ==
    IF StartsResolver(t) THEN [resolverRuns EXCEPT ![t] = @ + 1] ELSE resolverRuns
SelectorResult(t) == value[t]

\* A hasFinished() that asked whether the resolution has started.
HasStarted(t) == status[t] # "NOT_STARTED"

\* hasFinished() of the promise executor: the tuple is the args of the call.
HasFinished(t) == HasFinishedResolution(t)

\* resolve( v ) on promise p: a promise takes the first value it is given.
Resolved(ps, p, v) ==
    IF ps[p].state = "pending"
    THEN [ps EXCEPT ![p].state = "resolved", ![p].value = v]
    ELSE ps

\* Every pending promise whose tuple is finished has, from now on, seen a
\* notification of the store at which it was finished.
Notified(ps, st) ==
    [p \in DOMAIN ps |->
        IF ps[p].state = "pending" /\ st[ps[p].args] = "FINISHED"
        THEN [ps[p] EXCEPT !.notified = TRUE] ELSE ps[p]]

\* registry.__experimentalResolveSelect( "x" ).selector( ...args ): the
\* executor of the new promise runs inside the call.
ResolveSelectCall(t) ==
    LET p == Len(promises) + 1
        new == [args |-> t, state |-> "pending", value |-> 0, notified |-> FALSE]
    IN
    /\ stack = << >>
    /\ p <= MaxPromises
    /\ Select(atomResolver, Root, "x").ret = SelectorsOf(XStore)
    /\ atomResolver' = Select(atomResolver, Root, "x").ar
    /\ status' = SelectorStatus(t)
    /\ resolverRuns' = SelectorRuns(t)
    /\ IF HasFinished(t)
       THEN /\ promises' = Resolved(Append(promises, new), p, SelectorResult(t))
            /\ UNCHANGED <<listeners, stack, nextId, subAt, subDuring>>
       ELSE /\ promises' = Append(promises, new)
            /\ DoSubscribe(stack, Root, WaitListener(p))
    /\ UNCHANGED <<extVars, created, parent, stores, storeSubs, nextAdapter, handles,
                   called, unsubscribed, passCount, firstIn, value, failed, last>>

\* A wait listener that resolved at every notification, finished or not.
WaitListenerNoCheck ==
    /\ Invoking("wait")
    /\ LET p == Cur.cb.n IN
       /\ DoUnsubscribe(Advanced, Handle(Top.reg, Cur.cb, Cur.id))
       /\ promises' = Resolved(promises, p, SelectorResult(promises[p].args))
       /\ status' = SelectorStatus(promises[p].args)
       /\ resolverRuns' = SelectorRuns(promises[p].args)
    /\ UNCHANGED <<extVars, regVars, handles, nextId, passCount, subAt, subDuring,
                   value, failed>>

\* A wait listener that resolved when finished and stayed subscribed.
WaitListenerKeepsSubscribed ==
    /\ Invoking("wait")
    /\ LET p == Cur.cb.n IN
       /\ stack' = Advanced
       /\ IF HasFinished(promises[p].args)
          THEN /\ promises' = Resolved(promises, p, SelectorResult(promises[p].args))
               /\ status' = SelectorStatus(promises[p].args)
               /\ resolverRuns' = SelectorRuns(promises[p].args)
          ELSE UNCHANGED <<promises, status, resolverRuns>>
    /\ UNCHANGED <<extVars, regVars, listeners, called, unsubscribed, last, handles, nextId,
                   passCount, subAt, subDuring, value, failed>>

\* The listener the executor subscribed is invoked by a pass.
WaitListenerInvoked ==
    /\ Invoking("wait")
    /\ LET p == Cur.cb.n IN
       IF HasFinished(promises[p].args)
       THEN /\ DoUnsubscribe(Advanced, Handle(Top.reg, Cur.cb, Cur.id))
            /\ promises' = Resolved(promises, p, SelectorResult(promises[p].args))
            /\ status' = SelectorStatus(promises[p].args)
            /\ resolverRuns' = SelectorRuns(promises[p].args)
       ELSE /\ stack' = Advanced
            /\ UNCHANGED <<listeners, called, unsubscribed, last, promises, status,
                           resolverRuns>>
    /\ UNCHANGED <<extVars, regVars, handles, nextId, passCount, subAt, subDuring,
                   value, failed>>

\* The resolver of tuple t completes: the store marks it finished and tells
\* its subscribers, the globalListener of the registry.
FinishResolution(t) ==
    /\ stack = << >>
    /\ status[t] = "IN_PROGRESS"
    /\ ~failed[t]
    /\ status' = [status EXCEPT ![t] = "FINISHED"]
    /\ DoNotify(stack, storeSubs[XStore][1])
    /\ promises' = Notified(promises, [status EXCEPT ![t] = "FINISHED"])
    /\ UNCHANGED <<extVars, regVars, listeners, handles, called, unsubscribed, nextId, subAt,
                   subDuring, firstIn, value, resolverRuns, failed, last>>

\* An action dispatched to the store changes what the selector returns for
\* t: the store tells its subscribers.
StoreChange(t) ==
    /\ stack = << >>
    /\ value[t] < MaxChanges
    /\ value' = [value EXCEPT ![t] = @ + 1]
    /\ DoNotify(stack, storeSubs[XStore][1])
    /\ promises' = Notified(promises, status)
    /\ UNCHANGED <<extVars, regVars, listeners, handles, called, unsubscribed, nextId, subAt,
                   subDuring, firstIn, status, resolverRuns, failed, last>>

(* resolveSelect on a registry whose listeners also hold callbacks of user *)
(* code, which return or throw.                                            *)
NextResolve ==
    \/ \E t \in ArgTuples : ResolveSelectCall(t)
    \/ \E t \in ArgTuples : FinishResolution(t)
    \/ \E t \in ArgTuples : StoreChange(t)
    \/ WaitListenerInvoked
    \/ \E c \in Callbacks : Subscribe(Root, c)
    \/ ListenerReturns
    \/ ListenerThrows
    \/ ListenerNotifies
    \/ PassEnd

SpecResolve == InitResolve /\ [][NextResolve]_vars

(* The same with callbacks that never throw. *)
SpecResolveNoThrow == InitResolve /\ [][NextResolve /\ ~ListenerThrows]_vars

\* select( "x" ).selector( ...args ): the selector of the store, called
\* without resolveSelect.
PlainSelectCall(t) ==
    /\ stack = << >>
    /\ Select(atomResolver, Root, "x").ret = SelectorsOf(XStore)
    /\ atomResolver' = Select(atomResolver, Root, "x").ar
    /\ status' = SelectorStatus(t)
    /\ resolverRuns' = SelectorRuns(t)
    /\ UNCHANGED <<extVars, created, parent, stores, storeSubs, nextAdapter,
                   busVars, value, promises, failed, last>>

\* The resolver of tuple t throws, or the promise it returned rejects:
\* nothing is dispatched, and no completion follows.
ResolverFails(t) ==
    /\ stack = << >>
    /\ status[t] = "IN_PROGRESS"
    /\ ~failed[t]
    /\ failed' = [failed EXCEPT ![t] = TRUE]
    /\ UNCHANGED <<extVars, regVars, busVars, status, value, promises,
                   resolverRuns, last>>

(* resolveSelect and plain selector calls on a store whose resolvers complete *)
(* or fail, on a registry whose callers subscribe and unsubscribe; what the   *)
(* selector returns stays as it is.                                           *)
NextResolveFail ==
    \/ \E t \in ArgTuples : ResolveSelectCall(t)
    \/ \E t \in ArgTuples : PlainSelectCall(t)
    \/ \E t \in ArgTuples : FinishResolution(t)
    \/ \E t \in ArgTuples : ResolverFails(t)
    \/ WaitListenerInvoked
    \/ \E c \in Callbacks : Subscribe(Root, c)
    \/ \E h \in handles : Unsubscribe(h)
    \/ ListenerReturns
    \/ ListenerThrows
    \/ PassEnd

SpecResolveFail == InitResolve /\ [][NextResolveFail]_vars

(* ------------------------ claims: resolveSelect ----------------------- *)

\* C9: the promise of a resolveSelect selector call is resolved only in a
\* state in which the resolution of its arguments is finished, with what the
\* selector returns for them in that state, and once resolved it keeps its
\* value.
C9_ResolvedWhenFinishedWithCurrentValueOnce ==
    [][\A p \in DOMAIN promises' :
          /\ (/\ promises'[p].state = "resolved"
              /\ (p \notin DOMAIN promises \/ promises[p].state = "pending"))
             => /\ status'[promises'[p].args] = "FINISHED"
                /\ promises'[p].value = value'[promises'[p].args]
          /\ (p \in DOMAIN promises /\ promises[p].state = "resolved")
             => /\ promises'[p] = promises[p]
                /\ status'[promises'[p].args] = "FINISHED"]_vars

\* A promise that waited for its resolver has been resolved with a value the
\* store got after the call.
C9_Witness ==
    \E p \in DOMAIN promises :
        /\ promises[p].state = "resolved"
        /\ promises[p].notified
        /\ promises[p].value > 0

\* C10: once the resolution is finished and the store has notified the
\* registry, the promise is resolved when that notification is over.
C10_ResolvedAtFirstNotificationAfterFinished ==
    \A p \in DOMAIN promises :
        (stack = << >> /\ promises[p].notified) => promises[p].state = "resolved"

\* The registrations of the wait listener of promise p in the listeners.
WaitEntries(ls, p) == {i \in DOMAIN ls[Root] : ls[Root][i].cb = WaitListener(p)}

\* C11: once the promise of a resolveSelect selector call is resolved, the
\* listener of the call is not subscribed, and the step that resolves it
\* takes nothing else from the listeners; a call made when the resolution is
\* finished leaves the listeners as they are.
C11_ResolveSelectLeavesNoListener ==
    [][\A p \in DOMAIN promises' :
          /\ promises'[p].state = "resolved" => WaitEntries(listeners', p) = {}
          /\ (p \in DOMAIN promises /\ promises[p].state = "pending"
                /\ promises'[p].state = "resolved")
             => listeners'[Root] =
                    SelectSeq(listeners[Root], LAMBDA e : e.cb # WaitListener(p))
          /\ (p \notin DOMAIN promises /\ status[promises'[p].args] = "FINISHED")
             => listeners' = listeners]_vars

\* A promise that waited has been resolved by its listener, which was
\* unsubscribed, while a callback of user code is still subscribed.
C11_Witness ==
    \E p \in DOMAIN promises :
        /\ promises[p].state = "resolved"
        /\ promises[p].notified
        /\ called # {}
        /\ listeners[Root] # << >>

\* C12: the resolver of an argument tuple is started at most once, however
\* many selector and resolveSelect calls are made before it completes.
C12_ResolverStartedAtMostOnce ==
    \A t \in ArgTuples :
        /\ resolverRuns[t] <= 1
        /\ resolverRuns[t] = 1 <=> status[t] # "NOT_STARTED"

\* Two resolveSelect calls with the same tuple are waiting for one resolver.
C12_Witness ==
    \E p, q \in DOMAIN promises :
        /\ p # q
        /\ promises[p].args = promises[q].args
        /\ promises[p].state = "pending"
        /\ promises[q].state = "pending"
        /\ status[promises[p].args] = "IN_PROGRESS"
        /\ resolverRuns[promises[p].args] = 1

\* C13: after the resolver of a tuple has failed, the status of the tuple is
\* IN_PROGRESS, every promise of a resolveSelect call with the tuple is
\* pending, and its wait listener is subscribed.
C13_FailedResolverNeverSettles ==
    \A t \in ArgTuples :
        failed[t] =>
            /\ status[t] = "IN_PROGRESS"
            /\ \A p \in DOMAIN promises :
                   promises[p].args = t =>
                       /\ promises[p].state = "pending"
                       /\ WaitEntries(listeners, p) # {}

\* A pass that began after the resolver failed has invoked the wait listener
\* of a promise of the failed tuple.
C13_Witness ==
    /\ stack # << >>
    /\ \E p \in DOMAIN promises :
           /\ failed[promises[p].args]
           /\ \E i \in DOMAIN stack[1].calls : stack[1].calls[i].cb = WaitListener(p)

(* ------------------------------- use ---------------------------------- *)

\* The plugins callers pass to use: each returns an object with one new
\* method and, as the plugins of the package do, its own versions of some
\* methods of the registry.
Overridable == {"registerStore", "select"}
Plugins == [adds : NewAttributes, overrides : SUBSET Overridable]

\* plugin( registry, options ) called by the n-th use call.
PluginResult(pl, n) ==
    [k \in Attributes |->
        IF k = pl.adds \/ k \in pl.overrides THEN FromPlugin(n) ELSE Absent]

\* { ...a, ...b }: the attributes of b, and those of a that b has not.
Spread(a, b) == [k \in Attributes |-> IF b[k] # Absent THEN b[k] ELSE a[k]]

\* A use that extended the registry createRegistry built.
UseResultFromOriginal(pl, n) == Spread(OriginalRegistry, PluginResult(pl, n))

\* { ...registry, ...plugin( registry, options ) }
UseResult(pl, n) == Spread(registry, PluginResult(pl, n))

\* use( plugin, options ): the variable names the new object, which is
\* returned.
Use(pl) ==
    /\ stack = << >>
    /\ uses < MaxUses
    /\ uses' = uses + 1
    /\ registry' = UseResult(pl, uses + 1)
    /\ useRet' = UseResult(pl, uses + 1)
    /\ added' = added \cup {pl.adds}
    /\ UNCHANGED <<regVars, busVars, resolveVars, last, exceptUse>>

\* withPlugins( registry )[ key ]: the object createRegistry returned has the
\* attributes of the first registry object; its functions call the attribute
\* of the object `registry` names when they are called.
WithPlugins(key) ==
    IF key \in OriginalAttributes THEN registry[key] ELSE Absent

NextUse == \E pl \in Plugins : Use(pl)

SpecUse == InitRoot /\ [][NextUse]_vars

\* C14: the object a use call returns has every attribute of the registry
\* createRegistry built and every method the plugins of this and the earlier
\* use calls added, each from the latest plugin that returned it.
C14_UseKeepsOriginalAndAddedMethods ==
    [][uses' = uses + 1 =>
          /\ \A k \in OriginalAttributes \cup added' : useRet'[k] # Absent
          /\ \A k \in Attributes :
                 useRet'[k] \in {registry[k], FromPlugin(uses')}
          /\ \A k \in Attributes : useRet'[k] = Absent => registry[k] = Absent
          /\ registry' = useRet']_vars

\* use was applied twice and the two plugins added different methods: the
\* object returned has both.
C14_Witness ==
    /\ uses = 2
    /\ added = NewAttributes
    /\ \A k \in NewAttributes : useRet[k] # Absent

(* -------------------------- the counter store ------------------------ *)

\* The store registerStore( 'counter', ... ) made in the first registry.
CounterStore == 1

\* reducer: ( state = 0, action ) => action.type === 'INC' ? state + 1 : state
Reducer(state, type) == IF type = "INC" THEN state + 1 ELSE state

\* createRegistry(), then registerStore( 'counter', { reducer, actions,
\* selectors } ): the state is what the reducer returns for undefined.
InitCounter ==
    /\ created = {Root}
    /\ parent = [r \in Regs |-> 0]
    /\ stores = [r \in Regs |->
                    [k \in Keys |->
                        IF r = Root /\ k = "core/data" THEN Adapter(CoreStore(r))
                        ELSE IF r = Root /\ k = "counter" THEN Adapter(CounterStore)
                        ELSE Undefined]]
    /\ storeSubs = [a \in Adapters |->
                       IF a \in {CoreStore(Root), CounterStore} THEN <<Root>> ELSE << >>]
    /\ atomResolver = [r \in Regs |-> 0]
    /\ nextAdapter = CounterStore + 1
    /\ listeners = [r \in Regs |-> << >>]
    /\ stack = << >>
    /\ handles = {}
    /\ called = {}
    /\ unsubscribed = {}
    /\ nextId = 1
    /\ passCount = [r \in Regs |-> 0]
    /\ subAt = [i \in Ids |-> 0]
    /\ subDuring = {}
    /\ firstIn = [i \in Ids |-> 0]
    /\ status = [t \in ArgTuples |-> "NOT_STARTED"]
    /\ value = [t \in ArgTuples |-> 0]
    /\ promises = << >>
    /\ resolverRuns = [t \in ArgTuples |-> 0]
    /\ failed = [t \in ArgTuples |-> FALSE]
    /\ last = [op |-> "none"]
    /\ InitExt

\* dispatch( 'counter' ).increment() called on registry r with st as the
\* running passes: the store of the bundle dispatch returned reduces the
\* action and calls its subscriber, the globalListener of its registry.
DoIncrement(st, r) ==
    /\ incCalls < MaxIncrements
    /\ incCalls' = incCalls + 1
    /\ IF Dispatch(r, "counter") = ActionsOf(CounterStore)
       THEN /\ counterState' = Reducer(counterState, "INC")
            /\ DoNotify(st, storeSubs[CounterStore][1])
       ELSE /\ stack' = st
            /\ UNCHANGED <<counterState, passCount>>

Increment(r) ==
    /\ stack = << >>
    /\ r \in created
    /\ DoIncrement(stack, r)
    /\ UNCHANGED <<regVars, listeners, handles, called, unsubscribed, nextId, subAt, subDuring,
                   firstIn, resolveVars, last, exceptCounter>>

\* A callback calls dispatch( 'counter' ).increment() while it is invoked.
ListenerIncrements ==
    /\ Invoking("cb")
    /\ DoIncrement(Advanced, Top.reg)
    /\ UNCHANGED <<regVars, listeners, handles, called, unsubscribed, nextId, subAt, subDuring,
                   resolveVars, last, exceptCounter>>

\* The store registerStore returned is given an action of another type: the
\* state stays the same object and the store calls no subscriber.
OtherAction ==
    /\ stack = << >>
    /\ counterState' = Reducer(counterState, "OTHER")
    /\ UNCHANGED <<regVars, busVars, resolveVars, last, exceptCounter, incCalls>>

\* The entry a child registry subscribed to its parent is invoked: the
\* globalListener of the child runs inside the call.
GlobalListenerInvoked ==
    /\ Invoking("global")
    /\ DoNotify(Advanced, Cur.cb.n)
    /\ UNCHANGED <<extVars, listeners, handles, called, unsubscribed, nextId, subAt, subDuring,
                   last, regVars, resolveVars>>

\* select( 'counter' ).getCount() called on registry r.
GetCount(r) ==
    IF Select(atomResolver, r, "counter").ret = SelectorsOf(CounterStore)
    THEN counterState
    ELSE -1

(* The counter store in the first registry, used through it and through a *)
(* child registry, by callers and by subscribed callbacks.                 *)
NextCounter ==
    \/ \E r \in Regs : Increment(r)
    \/ OtherAction
    \/ CreateRegistry(Root)
    \/ \E r \in Regs, c \in Callbacks : Subscribe(r, c)
    \/ ListenerReturns
    \/ ListenerThrows
    \/ ListenerIncrements
    \/ GlobalListenerInvoked
    \/ PassEnd

SpecCounter == InitCounter /\ [][NextCounter]_vars

\* C15: in every state, select( 'counter' ).getCount() returns the number of
\* dispatch( 'counter' ).increment() calls made so far, on the registry of the
\* store and on its child.
C15_GetCountIsNumberOfIncrements ==
    \A r \in created : GetCount(r) = incCalls

\* increment() was called twice, once of them inside a notification pass, and
\* getCount() returns 2 on a child registry.
C15_Witness ==
    /\ incCalls = 2
    /\ stack = << >>
    /\ passCount[Root] = 2
    /\ \E r \in created : r # Root /\ GetCount(r) = 2

(* ---------------------- the resolve-selector cache -------------------- *)

\* The promise-selector bundle the n-th run of the memoized function built.
Bundle(n) == [n |-> n]
Node(arg, val) == [arg |-> arg, val |-> val]

\* The first entry of cache c, from the head, whose argument is arg; 0 when
\* there is none.
Hit(c, arg) ==
    IF \E i \in DOMAIN c : c[i].arg = arg
    THEN CHOOSE i \in DOMAIN c : c[i].arg = arg /\ \A j \in 1..(i - 1) : c[j].arg # arg
    ELSE 0

\* memize( fn, { maxSize } ) called with arg on cache c: an entry with the
\* identical argument is moved to the head and its value returned; else fn
\* runs, its value becomes the head, and the tail is dropped when the cache
\* held maxSize entries.
Memoized(c, arg, fresh) ==
    LET i == Hit(c, arg) IN
    IF i # 0
    THEN [cache |-> <<c[i]>> \o SelectSeq(c, LAMBDA e : e # c[i]),
          val |-> c[i].val, miss |-> FALSE]
    ELSE [cache |-> <<Node(arg, fresh)>> \o
                        (IF Len(c) = MaxSize THEN SubSeq(c, 1, Len(c) - 1) ELSE c),
          val |-> fresh, miss |-> TRUE]

\* The keys callers pass to resolveSelect: two registered, one not.
ResolveSelectKeys == {"x", "core/data", "counter"}

\* registry.__experimentalResolveSelect( key ) on r:
\* getResolveSelectors( select( key ) ).
ResolveSelect(r, key) ==
    LET sel == Select(atomResolver, r, key)
        m == Memoized(cache[r], sel.ret, Bundle(built + 1))
    IN
    /\ stack = << >>
    /\ r \in created
    /\ resolveCalls < MaxResolveSelects
    /\ sel.ret # TypeError
    /\ atomResolver' = sel.ar
    /\ cache' = [cache EXCEPT ![r] = m.cache]
    /\ built' = IF m.miss THEN built + 1 ELSE built
    /\ resolveRet' = [resolveRet EXCEPT
                         ![r] = [called |-> TRUE, arg |-> sel.ret, val |-> m.val]]
    /\ resolveCalls' = resolveCalls + 1
    /\ UNCHANGED <<created, parent, stores, storeSubs, nextAdapter, busVars,
                   resolveVars, last, exceptMemo>>

(* resolveSelect on a registry and its child, with store x registered again *)
(* in between.                                                              *)
NextMemo ==
    \/ \E r \in Regs, k \in ResolveSelectKeys : ResolveSelect(r, k)
    \/ RegisterStore(Root, "x", TRUE)
    \/ CreateRegistry(Root)

SpecMemo == InitResolve /\ [][NextMemo]_vars

\* C16: the cache of a registry holds at most one entry, that of the most
\* recent resolveSelect call; a call that sees the selector bundle the call
\* before it saw returns the bundle that call returned, and a call that sees
\* another one returns a bundle built by this call, also when an earlier call
\* has seen the same selector bundle.
C16_CacheHoldsTheLatestBundleOnly ==
    [][\A r \in Regs :
          resolveRet'[r] # resolveRet[r] \/ resolveCalls' # resolveCalls =>
              \/ UNCHANGED <<cache[r], resolveRet[r]>>
              \/ /\ cache'[r] = <<Node(resolveRet'[r].arg, resolveRet'[r].val)>>
                 /\ IF resolveRet[r].called /\ resolveRet[r].arg = resolveRet'[r].arg
                    THEN resolveRet'[r].val = resolveRet[r].val /\ built' = built
                    ELSE resolveRet'[r].val = Bundle(built') /\ built' = built + 1]_vars

\* A registry was asked for the bundle of x, then for another one, then for
\* that of x again, and has built three bundles.
C16_Witness ==
    \E r \in Regs :
        /\ resolveRet[r].called
        /\ resolveRet[r].arg = SelectorsOf(XStore)
        /\ resolveRet[r].val = Bundle(3)
        /\ built = 3
        /\ cache[r] = <<Node(SelectorsOf(XStore), Bundle(3))>>

(* --------------------- claims: registering again ---------------------- *)

\* The registries that adapter a has subscribed, as a set.
SubscribersOf(a) == {storeSubs[a][i] : i \in DOMAIN storeSubs[a]}

\* The adapters callers registered in r that no key of r names any more.
ReplacedIn(r) ==
    {a \in 1..MaxAdapters :
        r \in SubscribersOf(a) /\ \A k \in Keys : stores[r][k] # Adapter(a)}

\* C17: a successful registration of adapter a under a key of registry r
\* makes a the store of that key and changes no other key; select and
\* dispatch of the key on r then return the bundles of a; and nothing but a
\* successful registration changes the stores.
C17_LastWriteWins ==
    [][/\ storeSubs' # storeSubs =>
             \A a \in Adapters, r \in Regs :
                 storeSubs'[a] = Append(storeSubs[a], r) =>
                     \E k \in Keys :
                         /\ stores' = [stores EXCEPT ![r][k] = Adapter(a)]
                         /\ Select(atomResolver, r, k).ret' = SelectorsOf(a)
                         /\ Dispatch(r, k)' = ActionsOf(a)
       /\ stores' # stores =>
             \E a \in Adapters, r \in Regs : storeSubs'[a] = Append(storeSubs[a], r)]_vars

\* A key was registered twice, with different adapters: the registration
\* that has just returned replaced the adapter of the first.
C17_Witness ==
    /\ last.op \in RegisterOps
    /\ last.ret = Undefined
    /\ \E r \in created : ReplacedIn(r) # {}

(* ------------------ theme template synchronization ------------------- *)

\* The comparison of two versions, component by component: -1, 0 or 1.
Compare(a, b) ==
    IF a[1] # b[1] THEN (IF a[1] < b[1] THEN -1 ELSE 1)
    ELSE IF a[2] # b[2] THEN (IF a[2] < b[2] THEN -1 ELSE 1)
    ELSE 0

\* A version check that took an equal version for a newer one.
VersionCompareOrEqual(a, b, op) == op = ">" /\ Compare(a, b) >= 0

\* version_compare( a, b, '>' )
VersionCompare(a, b, op) == op = ">" /\ Compare(a, b) = 1

\* The first if / else of the function, for the theme with stylesheet s:
\* what it makes of $create_auto_drafts.
CreateAutoDraftsFor(s, createAutoDrafts) ==
    IF lastAutoDraftsVersions[s] # NotSet
    THEN IF VersionCompare(themeVersion[s], lastAutoDraftsVersions[s], ">")
         THEN TRUE
         ELSE createAutoDrafts
    ELSE TRUE

\* $create_auto_drafts at line 626.
CreateAutoDrafts ==
    LET current == CreateAutoDraftsFor(theme, FALSE) IN
    IF ParentOf(theme) # None
    THEN CreateAutoDraftsFor(ParentOf(theme), current)
    ELSE current

\* _gutenberg_synchronize_theme_templates for both template types: the
\* auto-drafts are made under the stylesheet of the current theme.
SynchronizeThemeTemplates == autoDrafts' = autoDrafts \cup {theme}

\* gutenberg_synchronize_theme_templates_on_version_change(), with
\* BLOCK_THEME_DEV_MODE as devMode.
SynchronizeOnVersionChange(devMode) ==
    /\ stack = << >>
    /\ IF devMode
       THEN /\ SynchronizeThemeTemplates
            /\ last' = [op |-> "wp_loaded", devMode |-> TRUE, synchronized |-> TRUE]
            /\ UNCHANGED lastAutoDraftsVersions
       ELSE IF ~CreateAutoDrafts
       THEN /\ last' = [op |-> "wp_loaded", devMode |-> FALSE, synchronized |-> FALSE]
            /\ UNCHANGED <<lastAutoDraftsVersions, autoDrafts>>
       ELSE /\ SynchronizeThemeTemplates
            /\ lastAutoDraftsVersions' =
                   [s \in Stylesheets |->
                       IF s = theme \/ (ParentOf(theme) # None /\ s = ParentOf(theme))
                       THEN themeVersion[s]
                       ELSE lastAutoDraftsVersions[s]]
            /\ last' = [op |-> "wp_loaded", devMode |-> FALSE, synchronized |-> TRUE]
    /\ UNCHANGED <<regVars, busVars, resolveVars, exceptTheme, theme, themeVersion>>

\* The administrator installs another version of theme s, newer or older.
UpdateTheme(s, v) ==
    /\ stack = << >>
    /\ v # themeVersion[s]
    /\ themeVersion' = [themeVersion EXCEPT ![s] = v]
    /\ UNCHANGED <<regVars, busVars, resolveVars, exceptTheme, theme,
                   lastAutoDraftsVersions, autoDrafts, last>>

\* The administrator activates theme s.
SwitchTheme(s) ==
    /\ stack = << >>
    /\ s # theme
    /\ theme' = s
    /\ UNCHANGED <<regVars, busVars, resolveVars, exceptTheme, themeVersion,
                   lastAutoDraftsVersions, autoDrafts, last>>

NextTheme ==
    \/ \E devMode \in BOOLEAN : SynchronizeOnVersionChange(devMode)
    \/ \E s \in Stylesheets, v \in Versions : UpdateTheme(s, v)
    \/ \E s \in Stylesheets : SwitchTheme(s)

SpecTheme == InitRoot /\ [][NextTheme]_vars

\* Version a is greater than version b.
Newer(a, b) == a[1] > b[1] \/ (a[1] = b[1] /\ a[2] > b[2])

\* Theme s has no recorded version, or a version greater than the recorded.
OutOfDate(s) ==
    \/ lastAutoDraftsVersions[s] = NotSet
    \/ Newer(themeVersion[s], lastAutoDraftsVersions[s])

\* The current theme and, when it has one, its parent theme.
CurrentThemes == {theme} \cup ({ParentOf(theme)} \ {None})

\* C18: outside dev mode the function synchronizes exactly when the current
\* theme or its parent theme is out of date; a synchronization makes the
\* recorded versions of these themes the current ones and leaves the others;
\* and after the function neither theme is out of date, so that the next
\* invocation synchronizes nothing.
C18_SynchronizesOnVersionChangeOnly ==
    [][SynchronizeOnVersionChange(FALSE) =>
          /\ last'.synchronized <=> \E s \in CurrentThemes : OutOfDate(s)
          /\ IF last'.synchronized
             THEN /\ theme \in autoDrafts'
                  /\ \A s \in Stylesheets :
                         lastAutoDraftsVersions'[s] =
                             IF s \in CurrentThemes THEN themeVersion[s]
                             ELSE lastAutoDraftsVersions[s]
             ELSE UNCHANGED <<lastAutoDraftsVersions, autoDrafts>>
          /\ \A s \in CurrentThemes : ~OutOfDate(s)'
          /\ ~CreateAutoDrafts']_vars

\* The function has synchronized with a child theme active: the recorded
\* versions of the child and of its parent are the installed ones, which
\* differ.
C18_Witness ==
    /\ last.op = "wp_loaded"
    /\ ~last.devMode
    /\ last.synchronized
    /\ theme = "child"
    /\ lastAutoDraftsVersions = themeVersion
    /\ themeVersion["child"] # themeVersion["parent"]

(* ------------------- stores and registries notifying ----------------- *)

\* The state of store a changes: the store calls the i-th function it was
\* given by subscribe, the globalListener of a registry.
StoreNotifies(a, i) ==
    /\ stack = << >>
    /\ i \in DOMAIN storeSubs[a]
    /\ DoNotify(stack, storeSubs[a][i])
    /\ last' = [op |-> "storeChange", a |-> a, reg |-> storeSubs[a][i],
                pass |-> passCount[storeSubs[a][i]] + 1]
    /\ UNCHANGED <<extVars, listeners, handles, called, unsubscribed, nextId, subAt, subDuring,
                   firstIn, regVars, resolveVars>>

(* A registry whose store x is registered and registered again, with *)
(* callbacks that return or throw.                                   *)
NextStores ==
    \/ \E c \in Configs : RegisterGenericStore(Root, "x", c)
    \/ RegisterStore(Root, "x", TRUE)
    \/ \E a \in Adapters : \E i \in DOMAIN storeSubs[a] : StoreNotifies(a, i)
    \/ \E c \in Callbacks : Subscribe(Root, c)
    \/ ListenerReturns
    \/ ListenerThrows
    \/ PassEnd

SpecStores == InitRoot /\ [][NextStores]_vars

(* Registries and child registries whose stores change, with callbacks that *)
(* return or throw.                                                        *)
NextTree ==
    \/ \E p \in created : CreateRegistry(p)
    \/ \E a \in Adapters : \E i \in DOMAIN storeSubs[a] : StoreNotifies(a, i)
    \/ \E r \in Regs, c \in Callbacks : Subscribe(r, c)
    \/ ListenerReturns
    \/ ListenerThrows
    \/ GlobalListenerInvoked
    \/ PassEnd

SpecTree == InitRoot /\ [][NextTree]_vars

(* The same with callbacks that never throw. *)
SpecTreeNoThrow == InitRoot /\ [][NextTree /\ ~ListenerThrows]_vars

IsPrefix(s, t) == Len(s) <= Len(t) /\ s = SubSeq(t, 1, Len(s))

\* C19: no registration takes the globalListener of a registry from a store
\* that holds it, also not from the store whose key it takes over; and when
\* a store, replaced or not, calls the globalListener of a registry, a pass
\* over the listeners of that registry begins.
C19_ReplacedAdapterStillNotifies ==
    [][/\ \A a \in Adapters : IsPrefix(storeSubs[a], storeSubs'[a])
       /\ \A r \in created : ReplacedIn(r) \subseteq ReplacedIn(r)' \cup
                                 {a \in Adapters : \E k \in Keys : stores'[r][k] = Adapter(a)}
       /\ (last' # last /\ last'.op = "storeChange") =>
             /\ last'.reg \in SubscribersOf(last'.a)
             /\ stack' = <<[reg |-> last'.reg, arr |-> listeners[last'.reg],
                            same |-> TRUE, len |-> Len(listeners[last'.reg]),
                            k |-> 1, calls |-> << >>, no |-> last'.pass]>>
             /\ passCount'[last'.reg] = passCount[last'.reg] + 1]_vars

\* A store whose key another store has taken over has changed, and the pass
\* it caused has invoked a listener of the registry.
C19_Witness ==
    /\ last.op = "storeChange"
    /\ last.a \in ReplacedIn(last.reg)
    /\ Select(atomResolver, last.reg, "x").ret # SelectorsOf(last.a)
    /\ stack # << >>
    /\ stack[1].reg = last.reg
    /\ stack[1].no = last.pass
    /\ stack[1].calls # << >>

\* C20: the globalListener of a registry with a parent is among the
\* listeners of the parent; a pass of the parent that is over has invoked the
\* globalListener of every child that was subscribed when it began; and no
\* pass of a parent runs inside a pass of its child.
C20_ParentPassRunsChildPass ==
    /\ \A r \in created :
           parent[r] # 0 =>
               \E i \in DOMAIN listeners[parent[r]] :
                   listeners[parent[r]][i].cb = GlobalListenerOf(r)
    /\ last.op = "pass" =>
           \A i \in DOMAIN last.range :
               last.range[i].cb.kind = "global" =>
                   \E j \in DOMAIN last.calls : last.calls[j] = last.range[i]
    /\ \A f \in DOMAIN stack :
           f > 1 => stack[f].reg # parent[stack[f - 1].reg]

(* ---------------- claims: unsubscribing during a pass ----------------- *)

\* A callback of user code calls an unsubscribe function and then throws: the
\* exception leaves every running forEach.
ListenerUnsubscribesThenThrows(h) ==
    /\ Invoking("cb")
    /\ listeners' = [listeners EXCEPT ![h.reg] = Without(@, h.cb)]
    /\ called' = called \cup {h.id}
    /\ unsubscribed' = unsubscribed \cup
                           RemovedBy(Advanced, h.reg, listeners[h.reg], h.cb)
    /\ stack' = << >>
    /\ last' = PassRecord(Advanced[Len(stack)], TRUE)
    /\ UNCHANGED <<extVars, handles, nextId, passCount, subAt, subDuring,
                   regVars, resolveVars>>

(* The listener bus with callbacks that also unsubscribe and throw in one *)
(* call, and the bus with callbacks that never throw.                     *)
NextBusUnsub ==
    \/ NextBus
    \/ \E h \in handles : ListenerUnsubscribesThenThrows(h)

SpecBusUnsub == InitRoot /\ [][NextBusUnsub]_vars

\* The elements pass f has called: those that have returned, and for the
\* innermost pass the one forEach is calling.
Invoked(f) ==
    IF f = Len(stack) /\ InRange(stack[f])
    THEN Append(stack[f].calls, stack[f].arr[stack[f].k])
    ELSE stack[f].calls

\* C21: a listener that a listener invoked earlier in a pass unsubscribes,
\* while the pass has not reached it, is still invoked in that pass: the
\* pass has invoked it when it is left; and no pass that begins after the
\* unsubscribe call invokes it.
C21_UnsubscribedDuringPassInvokedInItOnly ==
    [][/\ \A f \in DOMAIN stack :
              f > Len(stack') =>
                  \A u \in unsubscribed' :
                      (u.reg = stack[f].reg /\ u.pending = stack[f].no) =>
                          u.id \in IdsOf(Invoked(f))
       /\ \A f \in DOMAIN stack :
              \A u \in unsubscribed :
                  (u.pending # 0 /\ u.reg = stack[f].reg /\ stack[f].no > u.at) =>
                      u.id \notin IdsOf(Invoked(f))]_vars

(* ------------------------ Navigation: isEmpty ------------------------- *)

\* The object a menu registers itself with: its menu prop and isEmpty.
MenuObject(isE, n) == [menu |-> n, isEmpty |-> isE[n]]

\* What an element of a parentMenuToMenu array may be: the object of a menu,
\* or a value that is not an object.
ArrayElements(isE) == {MenuObject(isE, n) : n \in MenuNames} \cup {Null}

\* The array parentMenuToMenu holds for parentMenu after the additions adds,
\* each a pair of a parent menu and the element pushed to its array.
ChildrenOf(adds, parentMenu) ==
    LET sel == SelectSeq(adds, LAMBDA x : x[1] = parentMenu)
    IN  [i \in DOMAIN sel |-> sel[i][2]]

\* The menus that may be registered in navigationTree.menus: the root menu is.
RegisteredSets == {reg \in SUBSET MenuNames : "root" \in reg}

\* The tree after the menus isE marks have registered themselves: reg are
\* the keys of menus, adds the additions to the arrays of parentMenuToMenu.
TreeOf(isE, reg, adds) ==
    [menus |-> [n \in MenuNames |->
                   IF n \in reg THEN MenuObject(isE, n) ELSE Undefined],
     parentMenuToMenu |-> [n \in MenuNames |-> ChildrenOf(adds, n)]]

\* The menus the Navigation renders have registered themselves in the tree
\* useCreateNavigationTree() returned: at most MaxEntries array elements.
NavigationTreeCreated ==
    /\ navigationTree = EmptyTree
    /\ menuToCheck = NoMenu
    /\ \E isE \in [MenuNames -> BOOLEAN], reg \in RegisteredSets :
           \E k \in 0..MaxEntries :
               \E adds \in [1..k -> MenuNames \X ArrayElements(isE)] :
                   navigationTree' = TreeOf(isE, reg, adds)
    /\ UNCHANGED <<regVars, busVars, resolveVars, exceptNav, menuToCheck, count,
                   visited, queue, queueIsTreeArray, treeAtCall, last>>

\* findByParentMenu( parentMenu ): the array of the tree itself, or [].
FindByParentMenu(tree, parentMenu) == tree.parentMenuToMenu[parentMenu]

\* navigationTree.menus[ menuToCheck ]?.isEmpty, as a condition.
MenuIsEmpty(tree, m) == tree.menus[m] # Undefined /\ tree.menus[m].isEmpty

\* A visited list that never holds a menu.
IncludesNothing(list, menu) == FALSE

\* visited.includes( current.menu )
Includes(list, menu) == \E i \in DOMAIN list : list[i] = menu

\* isEmpty( menuToCheck ) is called: the statements before the loop.
IsEmptyCalled(m) ==
    /\ menuToCheck = NoMenu
    /\ navigationTree # EmptyTree
    /\ menuToCheck' = m
    /\ count' = IF MenuIsEmpty(navigationTree, m) THEN 0 ELSE 1
    /\ visited' = << >>
    /\ queue' = FindByParentMenu(navigationTree, m)
    /\ queueIsTreeArray' = TRUE
    /\ treeAtCall' = navigationTree
    /\ UNCHANGED <<regVars, busVars, resolveVars, exceptNav, navigationTree, last>>

\* One turn of the while loop. queue.shift() changes the array in place:
\* while `queue` names the array of the tree, the tree loses the element.
IsEmptyLoop ==
    /\ menuToCheck # NoMenu
    /\ queue # << >>
    /\ LET current == Head(queue)
           shifted == Tail(queue)
           tree == IF queueIsTreeArray
                   THEN [navigationTree EXCEPT
                            !.parentMenuToMenu[menuToCheck] = shifted]
                   ELSE navigationTree
       IN  /\ navigationTree' = tree
           /\ IF current # Null /\ ~Includes(visited, current.menu)
              THEN /\ count' = IF current.isEmpty THEN count ELSE count + 1
                   /\ visited' = Append(visited, current.menu)
                   /\ queue' = shifted \o FindByParentMenu(tree, current.menu)
                   /\ queueIsTreeArray' = FALSE
              ELSE /\ queue' = shifted
                   /\ UNCHANGED <<count, visited, queueIsTreeArray>>
    /\ UNCHANGED <<regVars, busVars, resolveVars, exceptNav, menuToCheck,
                   treeAtCall, last>>

\* The loop is over: return count === 0.
IsEmptyReturns ==
    /\ menuToCheck # NoMenu
    /\ queue = << >>
    /\ last' = [op |-> "isEmpty", menu |-> menuToCheck, ret |-> count = 0]
    /\ menuToCheck' = NoMenu
    /\ count' = 0
    /\ visited' = << >>
    /\ queueIsTreeArray' = FALSE
    /\ UNCHANGED <<regVars, busVars, resolveVars, exceptNav, navigationTree,
                   queue, treeAtCall>>

(* A Navigation whose menus have registered themselves, and whose children *)
(* call isEmpty again and again.                                           *)
NextNav ==
    \/ NavigationTreeCreated
    \/ \E m \in MenuNames : IsEmptyCalled(m)
    \/ IsEmptyLoop
    \/ IsEmptyReturns

SpecNav == InitRoot /\ [][NextNav]_vars

(* ------------------------- claims: isEmpty ---------------------------- *)

\* The menus the elements of the array of n name.
ChildMenus(tree, n) ==
    {tree.parentMenuToMenu[n][i].menu :
        i \in {j \in DOMAIN tree.parentMenuToMenu[n] :
                  tree.parentMenuToMenu[n][j] # Null}}

RECURSIVE Closure(_, _)
Closure(tree, S) ==
    LET T == S \cup UNION {ChildMenus(tree, n) : n \in S}
    IN  IF T = S THEN S ELSE Closure(tree, T)

\* The menus reachable from m through parentMenuToMenu.
ReachableFrom(tree, m) == Closure(tree, ChildMenus(tree, m))

\* Menu n is marked isEmpty, where it is registered and where it is listed.
MarkedIsEmpty(tree, n) ==
    /\ tree.menus[n] # Undefined => tree.menus[n].isEmpty
    /\ \A p \in MenuNames :
           \A i \in DOMAIN tree.parentMenuToMenu[p] :
               LET e == tree.parentMenuToMenu[p][i]
               IN  (e # Null /\ e.menu = n) => e.isEmpty

\* Some array of the tree lists a menu more than once.
ListsAMenuTwice(tree) ==
    \E p \in MenuNames :
        \E i, j \in DOMAIN tree.parentMenuToMenu[p] :
            /\ i < j
            /\ tree.parentMenuToMenu[p][i] # Null
            /\ tree.parentMenuToMenu[p][i] = tree.parentMenuToMenu[p][j]

\* What bounds the turns the loop of the running call has left: the length
\* of the queue, and for every menu not yet visited more than any array of
\* the tree can add to it.
Variant ==
    Len(queue) + Cardinality(MenuNames \ {visited[i] : i \in DOMAIN visited})
                    * (1 + SumLen(treeAtCall.parentMenuToMenu, MenuNames))

\* C22: isEmpty( menu ) terminates for every navigation tree, also when the
\* links of parentMenuToMenu form a cycle or an array lists a menu more than
\* once: every turn of its loop lowers a natural number; and for a menu
\* registered in menus it returns true exactly when, in the tree as the call
\* found it, the menu and every menu reachable from it through
\* parentMenuToMenu are marked isEmpty.
C22_IsEmptyTerminatesAndTellsEmptiness ==
    [][/\ (menuToCheck # NoMenu /\ menuToCheck' # NoMenu) =>
              (Variant \in Nat /\ Variant' \in Nat /\ Variant' < Variant)
       /\ (menuToCheck # NoMenu /\ menuToCheck' = NoMenu
              /\ treeAtCall.menus[menuToCheck] # Undefined) =>
              /\ last'.op = "isEmpty"
              /\ last'.menu = menuToCheck
              /\ last'.ret =
                     (/\ MarkedIsEmpty(treeAtCall, menuToCheck)
                      /\ \A n \in ReachableFrom(treeAtCall, menuToCheck) :
                             MarkedIsEmpty(treeAtCall, n))]_vars

\* isEmpty has returned true for a registered menu that lies on a cycle of
\* the tree it was called on, in which an array lists a menu twice and more
\* than one menu is reachable.
C22_Witness ==
    /\ menuToCheck = NoMenu
    /\ last.op = "isEmpty"
    /\ last.ret
    /\ treeAtCall.menus[last.menu] # Undefined
    /\ last.menu \in ReachableFrom(treeAtCall, last.menu)
    /\ Cardinality(ReachableFrom(treeAtCall, last.menu)) > 1
    /\ ListsAMenuTwice(treeAtCall)

====
